---- MODULE Spec2Model ----
(***************************************************************************)
(* Model of pumpkin-world/src/generation/generator/mod.rs: the request     *)
(* iterator (LoadRequest::into_iter), the ring cursors it is built from,   *)
(* the scheduler loop initialize_generator that interleaves the iterators  *)
(* of the requests received on a crossbeam channel, and the biome and      *)
(* block fill loops of VanillaGenerator::request_load.                     *)
(*                                                                         *)
(* The scheduler thread is modelled at the grain of its channel            *)
(* operations (try_recv, recv), the only points where it meets the         *)
(* senders; the thread-local statements between two of them are one step.  *)
(***************************************************************************)
EXTENDS Integers, Sequences, FiniteSets, TLC

(* ---- bounds of the model ---- *)
MaxRequests == 3
MaxRadius == 3
MaxOrigin == 8
MaxMinYSections == 4

Ids == 1..MaxRequests
Radii == 0..MaxRadius
\* origins of the requests iterated on their own (IterSpec)
Origins == (0 - MaxOrigin)..MaxOrigin
\* origin of the requests sent to the scheduler, which never reads it
SentOrigins == {MaxOrigin}
\* radii of the requests sent to the scheduler: no, one and several work units
SentRadii == {0, 1, MaxRadius}

(* ---- program constants (mod.rs:148-151) ---- *)
LIGHT_RADIUS == 1
CARVER_RADIUS == LIGHT_RADIUS + 1
BIOME_RADIUS_NoIncrement == CARVER_RADIUS
BIOME_RADIUS == CARVER_RADIUS + 1
STRUCTURE_STARTS_RADIUS_FromBiome == BIOME_RADIUS + 8
STRUCTURE_STARTS_RADIUS == CARVER_RADIUS + 8

VARIABLES
    overflow_checks, \* build: TRUE = arithmetic overflow panics (debug), FALSE = wraps
    chan,            \* crossbeam channel: requests sent and not yet received, oldest first
    chanOpen,        \* TRUE while some Sender is alive
    sent,            \* history: every LoadRequest sent, in order; a request's id is its index
    queue,           \* VecDeque of request iterators; index 1 is the front
    poll_countdown,  \* usize; a value v < 0 stands for the wrapped value 2^64 + v
    pc,              \* scheduler thread: "drain", "pop", "blocked", "done" or "panicked"; "iter", "ring", "fill" outside it
    executed,        \* history: per request, the work units task.next() returned, in order
    deqCount,        \* history: per request, how often its task was popped from the queue
    dropped,         \* history: requests whose task was popped, found exhausted and dropped
    admitted,        \* history: per request, "no", "try_recv" or "recv"
    batch,           \* history: per request, the number of the drain that admitted it
    drains,          \* history: number of non-blocking drains begun
    alone,           \* history: requests admitted into an empty queue, no admission since
    roundStart,      \* history: ids in the queue when poll_countdown was last set
    roundN,          \* history: the value poll_countdown was last set to
    roundDeq,        \* history: ids popped since poll_countdown was last set
    recent,          \* history: the last MaxRequests pops
    sentMidRound,    \* history: requests sent at poll_countdown # 0, not zero since
    waitDeq,         \* history: per request in the channel, pops made since it was sent
    closedWith,      \* history: ids in the queue with units left when the channel closed
    drainPending,    \* history: ids in the channel when the drain under way began
    ringIter,        \* a RingIterator being drained on its own: cursor, pc, columns yielded
    fill             \* request_load's two fill loops: shape, pc, layer, cells written

vars == <<overflow_checks, chan, chanOpen, sent, queue, poll_countdown, pc, executed,
          deqCount, dropped, admitted, batch, drains, alone, roundStart, roundN,
          roundDeq, recent, sentMidRound, waitDeq, closedWith, drainPending, ringIter, fill>>

(* ---- LoadRequest and RingIterator ---- *)

\* LoadRequest::with_radius
with_radius(self, radius) == [origin |-> self.origin, radius |-> radius]

\* impl From<LoadRequest> for RingIterator
RingIterator_from(value) == [index |-> 0, position |-> value.origin, radius |-> value.radius]

\* RingIterator::with_padding; radius and padding stay far below 2^32 here
with_padding(self, padding) ==
    [index |-> self.index, position |-> self.position, radius |-> self.radius + padding]

\* the count handed to repeat_n
RepeatCount(self) == self.radius

\* LoadRequest::into_iter: Map<Enumerate<RepeatN<Item>>>; n is what RepeatN has
\* left, count is Enumerate's counter
into_iter(self) ==
    [ring |-> RingIterator_from(with_radius(self, 0)),
     light_radius |-> RingIterator_from(with_radius(self, LIGHT_RADIUS)),
     carver_radius |-> RingIterator_from(with_radius(self, CARVER_RADIUS)),
     biome_radius |-> RingIterator_from(with_radius(self, BIOME_RADIUS)),
     structure_starts_radius |-> RingIterator_from(with_radius(self, STRUCTURE_STARTS_RADIUS)),
     n |-> RepeatCount(self),
     count |-> 0]

\* the closure given to map, applied to (i, item)
MapItem(i, it) ==
    [i |-> i,
     ring |-> with_padding(it.ring, i),
     light_radius |-> with_padding(it.light_radius, i),
     carver_radius |-> with_padding(it.carver_radius, i),
     biome_radius |-> with_padding(it.biome_radius, i),
     structure_starts_radius |-> with_padding(it.structure_starts_radius, i)]

\* Iterator::next on the request iterator: is there an item, which, and the iterator after
HasNext_OnePast(it) == it.n >= 0
HasNext(it) == it.n > 0
NextItem(it) == MapItem(it.count, it)
Advance_KeepCount(it) == [it EXCEPT !.n = @ - 1]
Advance(it) == [it EXCEPT !.n = @ - 1, !.count = @ + 1]

(* ---- VecDeque ---- *)
push_front_AtBack(q, t) == Append(q, t)
push_front(q, t) == <<t>> \o q
pop_back_AtFront(q) == [task |-> Head(q), rest |-> Tail(q)]
pop_back_KeepTask(q) == [task |-> q[Len(q)], rest |-> q]
\* VecDeque::pop_back on a non-empty queue: the element removed and the queue left
pop_back(q) == [task |-> q[Len(q)], rest |-> SubSeq(q, 1, Len(q) - 1)]

pop_back_is_none_AtOne(q) == Len(q) <= 1
\* VecDeque::pop_back returns None: the queue is empty
pop_back_is_none(q) == q = <<>>

QueueIds(q) == {q[k].id : k \in 1..Len(q)}
ChanIds == {chan[k].id : k \in 1..Len(chan)}

\* a queue entry: the request's iterator, tagged with the request's id
Task(id, req) == [id |-> id, it |-> into_iter(req)]

(* ---- poll_countdown -= 1 (mod.rs:260), then the loop head (mod.rs:244) ---- *)
\* usize subtraction: at 0 it panics when overflow checks are on and wraps otherwise
DecrementPanics(cd) == cd = 0 /\ overflow_checks
Decrement(cd) == IF DecrementPanics(cd) THEN cd ELSE cd - 1
\* where the thread goes next: if poll_countdown == 0 it drains the channel
LoopHead(cd) == IF cd = 0 THEN "drain" ELSE "pop"
AfterDecrement(cd) == IF DecrementPanics(cd) THEN "panicked" ELSE LoopHead(Decrement(cd))

NoHistory == [id \in Ids |-> 0]
\* no ring cursor is being drained
NoRing == [pc |-> "none"]
\* request_load is not running
NoFill == [pc |-> "none"]

Init ==
    /\ overflow_checks \in BOOLEAN
    /\ chan = <<>>
    /\ chanOpen = TRUE
    /\ sent = <<>>
    /\ queue = <<>>
    /\ poll_countdown = 0
    /\ pc = LoopHead(poll_countdown)
    /\ executed = [id \in Ids |-> <<>>]
    /\ deqCount = NoHistory
    /\ dropped = {}
    /\ admitted = [id \in Ids |-> "no"]
    /\ batch = NoHistory
    /\ drains = 1
    /\ alone = {}
    /\ roundStart = {}
    /\ roundN = 0
    /\ roundDeq = <<>>
    /\ recent = <<>>
    /\ sentMidRound = {}
    /\ waitDeq = NoHistory
    /\ drainPending = {}
    /\ closedWith = {}
    /\ ringIter = NoRing
    /\ fill = NoFill

(* ---- the senders ---- *)

\* Sender::send(LoadRequest { origin, radius }); it fails once the receiver is gone
Send(origin, radius) ==
    /\ chanOpen
    /\ pc \notin {"done", "panicked"}
    /\ Len(sent) < MaxRequests
    /\ LET id == Len(sent) + 1
           req == [origin |-> origin, radius |-> radius]
       IN /\ sent' = Append(sent, req)
          /\ chan' = Append(chan, [id |-> id, req |-> req])
          /\ sentMidRound' = IF poll_countdown # 0 THEN sentMidRound \cup {id}
                             ELSE sentMidRound
    /\ UNCHANGED <<fill, ringIter, closedWith, drainPending, overflow_checks, chanOpen, queue, poll_countdown, pc, executed,
                   deqCount, dropped, admitted, batch, drains, alone, roundStart,
                   roundN, roundDeq, recent, waitDeq>>

\* the last Sender is dropped
Close ==
    /\ chanOpen
    /\ chanOpen' = FALSE
    /\ closedWith' = {queue[k].id : k \in {j \in 1..Len(queue) : HasNext(queue[j].it)}}
    /\ UNCHANGED <<fill, ringIter, drainPending, overflow_checks, chan, sent, queue, poll_countdown, pc, executed,
                   deqCount, dropped, admitted, batch, drains, alone, roundStart,
                   roundN, roundDeq, recent, sentMidRound, waitDeq>>

(* ---- initialize_generator (mod.rs:239-262) ---- *)

\* history kept when request m leaves the channel for the queue
Admit(m, how) ==
    /\ chan' = Tail(chan)
    /\ queue' = push_front(queue, Task(m.id, m.req))
    /\ admitted' = [admitted EXCEPT ![m.id] = how]
    /\ batch' = [batch EXCEPT ![m.id] = drains]
    /\ alone' = (alone \cap dropped) \cup (IF queue = <<>> THEN {m.id} ELSE {})
    /\ waitDeq' = [waitDeq EXCEPT ![m.id] = 0]

\* lines 245-247: rx.try_recv() returns Ok(task)
TryRecvOk ==
    /\ pc = "drain"
    /\ chan # <<>>
    /\ Admit(Head(chan), "try_recv")
    /\ UNCHANGED <<fill, ringIter, closedWith, drainPending, overflow_checks, chanOpen, sent, poll_countdown, pc, executed,
                   deqCount, dropped, drains, roundStart, roundN, roundDeq, recent,
                   sentMidRound>>

\* lines 245, 248: rx.try_recv() returns Err (empty or disconnected); the loop ends
\* and poll_countdown = queue.len()
TryRecvErr ==
    /\ pc = "drain"
    /\ chan = <<>>
    /\ poll_countdown' = Len(queue)
    /\ pc' = "pop"
    /\ roundStart' = QueueIds(queue)
    /\ roundN' = Len(queue)
    /\ roundDeq' = <<>>
    /\ drainPending' = {}
    /\ UNCHANGED <<fill, ringIter, closedWith, overflow_checks, chan, chanOpen, sent, queue, executed, deqCount,
                   dropped, admitted, batch, drains, alone, recent, sentMidRound,
                   waitDeq>>

\* what one pop is remembered by
PopEvent(t) ==
    [id |-> t.id,
     served |-> HasNext(t.it),
     qids |-> QueueIds(queue),
     n |-> Len(queue),
     cd |-> poll_countdown,
     enough |-> \A k \in 1..Len(queue) : queue[k].it.n >= Len(queue),
     adm |-> Cardinality({id \in Ids : admitted[id] # "no"})]

LastEvents(s) == IF Len(s) > MaxRequests THEN Tail(s) ELSE s

\* lines 250-254 and 260: queue.pop_back() returns Some(task); task.next(); the task
\* goes back to the front when next() returned a work unit; poll_countdown -= 1
Service ==
    /\ pc = "pop"
    /\ ~pop_back_is_none(queue)
    /\ LET task == pop_back(queue).task
           rest == pop_back(queue).rest
       IN /\ IF HasNext(task.it)
             THEN /\ executed' = [executed EXCEPT ![task.id] = Append(@, NextItem(task.it))]
                  /\ queue' = push_front(rest, [task EXCEPT !.it = Advance(task.it)])
                  /\ dropped' = dropped
             ELSE /\ executed' = executed
                  /\ queue' = rest
                  /\ dropped' = dropped \cup {task.id}
          /\ deqCount' = [deqCount EXCEPT ![task.id] = @ + 1]
          /\ roundDeq' = Append(roundDeq, task.id)
          /\ recent' = LastEvents(Append(recent, PopEvent(task)))
    /\ waitDeq' = [id \in Ids |-> IF id \in ChanIds THEN waitDeq[id] + 1 ELSE waitDeq[id]]
    /\ poll_countdown' = Decrement(poll_countdown)
    /\ pc' = AfterDecrement(poll_countdown)
    /\ sentMidRound' = IF poll_countdown' = 0 THEN {} ELSE sentMidRound
    /\ drains' = IF pc' = "drain" THEN drains + 1 ELSE drains
    /\ drainPending' = IF pc' = "drain" THEN ChanIds ELSE {}
    /\ UNCHANGED <<fill, ringIter, closedWith, overflow_checks, chan, chanOpen, sent, admitted, batch, alone,
                   roundStart, roundN>>

\* lines 250, 255-257: queue.pop_back() returns None; rx.recv() suspends the thread
Block ==
    /\ pc = "pop"
    /\ pop_back_is_none(queue)
    /\ pc' = "blocked"
    /\ UNCHANGED <<fill, ringIter, closedWith, drainPending, overflow_checks, chan, chanOpen, sent, queue, poll_countdown,
                   executed, deqCount, dropped, admitted, batch, drains, alone,
                   roundStart, roundN, roundDeq, recent, sentMidRound, waitDeq>>

\* lines 257-260: rx.recv() returns Ok(value); push_front; poll_countdown -= 1
RecvOk ==
    /\ pc = "blocked"
    /\ chan # <<>>
    /\ Admit(Head(chan), "recv")
    /\ poll_countdown' = Decrement(poll_countdown)
    /\ pc' = AfterDecrement(poll_countdown)
    /\ sentMidRound' = IF poll_countdown' = 0 THEN {} ELSE sentMidRound
    /\ drains' = IF pc' = "drain" THEN drains + 1 ELSE drains
    /\ drainPending' = IF pc' = "drain" THEN QueueIds(Tail(chan)) ELSE {}
    /\ UNCHANGED <<fill, ringIter, closedWith, overflow_checks, chanOpen, sent, executed, deqCount, dropped,
                   roundStart, roundN, roundDeq, recent>>

\* line 257: rx.recv() returns Err (empty and disconnected): return
RecvErr ==
    /\ pc = "blocked"
    /\ chan = <<>>
    /\ ~chanOpen
    /\ pc' = "done"
    /\ UNCHANGED <<fill, ringIter, closedWith, drainPending, overflow_checks, chan, chanOpen, sent, queue, poll_countdown,
                   executed, deqCount, dropped, admitted, batch, drains, alone,
                   roundStart, roundN, roundDeq, recent, sentMidRound, waitDeq>>

Scheduler == TryRecvOk \/ TryRecvErr \/ Service \/ Block \/ RecvOk \/ RecvErr

Next ==
    \/ \E origin \in SentOrigins, radius \in SentRadii : Send(origin, radius)
    \/ Close
    \/ TryRecvOk
    \/ TryRecvErr
    \/ Service
    \/ Block
    \/ RecvOk
    \/ RecvErr

Spec == Init /\ [][Next]_vars

(* ---- one request iterated to its end, outside the scheduler ---- *)

\* for unit in request.into_iter(): the request is any LoadRequest of the bounds
IterInit ==
    /\ overflow_checks \in BOOLEAN
    /\ chan = <<>>
    /\ chanOpen = TRUE
    /\ \E origin \in Origins, radius \in Radii :
          LET req == [origin |-> origin, radius |-> radius]
          IN /\ sent = <<req>>
             /\ queue = <<Task(1, req)>>
    /\ poll_countdown = 0
    /\ pc = "iter"
    /\ executed = [id \in Ids |-> <<>>]
    /\ deqCount = NoHistory
    /\ dropped = {}
    /\ admitted = [id \in Ids |-> "no"]
    /\ batch = NoHistory
    /\ drains = 0
    /\ alone = {}
    /\ roundStart = {}
    /\ roundN = 0
    /\ roundDeq = <<>>
    /\ recent = <<>>
    /\ sentMidRound = {}
    /\ waitDeq = NoHistory
    /\ drainPending = {}
    /\ closedWith = {}
    /\ ringIter = NoRing
    /\ fill = NoFill

\* one call of next() on the iterator; after None the iterator is dropped
IterNext ==
    /\ pc = "iter"
    /\ queue # <<>>
    /\ LET task == queue[1]
       IN IF HasNext(task.it)
          THEN /\ executed' = [executed EXCEPT ![task.id] = Append(@, NextItem(task.it))]
               /\ queue' = <<[task EXCEPT !.it = Advance(task.it)]>>
               /\ dropped' = dropped
          ELSE /\ executed' = executed
               /\ queue' = <<>>
               /\ dropped' = dropped \cup {task.id}
    /\ UNCHANGED <<fill, ringIter, closedWith, drainPending, overflow_checks, chan, chanOpen, sent, poll_countdown, pc, deqCount,
                   admitted, batch, drains, alone, roundStart, roundN, roundDeq,
                   recent, sentMidRound, waitDeq>>

IterSpec == IterInit /\ [][IterNext]_vars

(* ---- one ring cursor drained on its own ---- *)

\* RingIterator::next (mod.rs:234-236): the body is todo!(), which panics with
\* "not yet implemented" on every call, whatever the cursor holds
RingIterator_next(self) == [panics |-> TRUE, item |-> "None", self |-> self]

\* while let Some(column) = cursor.next(): the cursor of any LoadRequest of the bounds
RingInit ==
    /\ overflow_checks \in BOOLEAN
    /\ chan = <<>>
    /\ chanOpen = TRUE
    /\ sent = <<>>
    /\ queue = <<>>
    /\ poll_countdown = 0
    /\ pc = "ring"
    /\ executed = [id \in Ids |-> <<>>]
    /\ deqCount = NoHistory
    /\ dropped = {}
    /\ admitted = [id \in Ids |-> "no"]
    /\ batch = NoHistory
    /\ drains = 0
    /\ alone = {}
    /\ roundStart = {}
    /\ roundN = 0
    /\ roundDeq = <<>>
    /\ recent = <<>>
    /\ sentMidRound = {}
    /\ waitDeq = NoHistory
    /\ drainPending = {}
    /\ closedWith = {}
    /\ fill = NoFill
    /\ \E origin \in Origins, radius \in Radii :
          ringIter = [pc |-> "ready",
                      cursor |-> RingIterator_from([origin |-> origin, radius |-> radius]),
                      columns |-> <<>>]

\* one call of next() on the cursor
RingNext ==
    /\ pc = "ring"
    /\ ringIter.pc = "ready"
    /\ LET r == RingIterator_next(ringIter.cursor)
       IN ringIter' =
             IF r.panics THEN [ringIter EXCEPT !.pc = "panicked"]
             ELSE IF r.item = "None" THEN [ringIter EXCEPT !.pc = "drained", !.cursor = r.self]
             ELSE [ringIter EXCEPT !.cursor = r.self, !.columns = Append(@, r.item)]
    /\ UNCHANGED <<overflow_checks, chan, chanOpen, sent, queue, poll_countdown, pc,
                   executed, deqCount, dropped, admitted, batch, drains, alone,
                   roundStart, roundN, roundDeq, recent, sentMidRound, waitDeq,
                   closedWith, drainPending, fill>>

RingSpec == RingInit /\ [][RingNext]_vars

(* ---- VanillaGenerator::request_load, the biome fill and the block fill ---- *)

\* BlockPalette::SIZE and BiomePalette::SIZE: block and biome layers per section
BlockPalette_SIZE == 16
BiomePalette_SIZE == 4
\* biome_coords::from_block: block coordinate to biome coordinate
from_block(y) == y \div (BlockPalette_SIZE \div BiomePalette_SIZE)

Dimensions == {"Overworld", "Nether", "End"}
\* the shape's min_y, in sections below zero or above it
MinYs == {k * BlockPalette_SIZE : k \in (0 - MaxMinYSections)..MaxMinYSections}

\* let height: usize = match self.dimension {..} (mod.rs:80-83)
height(dimension) == IF dimension = "Overworld" THEN 384 ELSE 256
\* the length of sections.sections (mod.rs:84-85)
sub_chunks(dimension) == height(dimension) \div BlockPalette_SIZE
\* gen_settings_from_dimension(..).shape: the dimension's height and its min_y
shape(dimension, min_y) == [min_y |-> min_y, height |-> height(dimension)]

\* sections.sections.get_mut(section_index) returns Some
get_mut_is_some(dimension, section_index) ==
    section_index >= 0 /\ section_index < sub_chunks(dimension)

\* v as usize, divided by size: a negative v becomes 2^64 + v, whose quotient is
\* beyond the length of every Vec; -1 stands for that quotient
usize_div(v, size) == IF v < 0 THEN 0 - 1 ELSE v \div size
\* v as usize, modulo size; size divides 2^64
usize_mod(v, size) == v % size

\* mod.rs:108-110: the section and the row within it that biome layer y goes to
biome_cell(y) == <<usize_div(y, BiomePalette_SIZE), usize_mod(y, BiomePalette_SIZE)>>
\* mod.rs:125-127: the section and the row within it that block layer y goes to
block_cell(y, sections_min_y) ==
    LET relative_y == y - sections_min_y
    IN <<usize_div(relative_y, BlockPalette_SIZE), usize_mod(relative_y, BlockPalette_SIZE)>>

\* request_load past the creation of the sections (mod.rs:86), for any dimension
\* and any min_y of the bounds
FillInit ==
    /\ overflow_checks \in BOOLEAN
    /\ chan = <<>>
    /\ chanOpen = TRUE
    /\ sent = <<>>
    /\ queue = <<>>
    /\ poll_countdown = 0
    /\ pc = "fill"
    /\ executed = [id \in Ids |-> <<>>]
    /\ deqCount = NoHistory
    /\ dropped = {}
    /\ admitted = [id \in Ids |-> "no"]
    /\ batch = NoHistory
    /\ drains = 0
    /\ alone = {}
    /\ roundStart = {}
    /\ roundN = 0
    /\ roundDeq = <<>>
    /\ recent = <<>>
    /\ sentMidRound = {}
    /\ waitDeq = NoHistory
    /\ drainPending = {}
    /\ closedWith = {}
    /\ ringIter = NoRing
    /\ \E dimension \in Dimensions, min_y \in MinYs :
          fill = [pc |-> "biome",
                  dimension |-> dimension,
                  shape |-> shape(dimension, min_y),
                  sections_min_y |-> min_y,
                  y |-> 0,
                  biomes |-> {},
                  block_states |-> {},
                  skipped |-> {}]

\* mod.rs:107-123: one iteration of the biome loop, or its end
BiomeLayer ==
    /\ pc = "fill"
    /\ fill.pc = "biome"
    /\ fill' =
          IF fill.y >= from_block(fill.shape.height)
          THEN [fill EXCEPT !.pc = "block", !.y = 0]
          ELSE IF get_mut_is_some(fill.dimension, biome_cell(fill.y)[1])
          THEN [fill EXCEPT !.y = @ + 1, !.biomes = @ \cup {biome_cell(fill.y)}]
          ELSE [fill EXCEPT !.y = @ + 1]
    /\ UNCHANGED <<overflow_checks, chan, chanOpen, sent, queue, poll_countdown, pc,
                   executed, deqCount, dropped, admitted, batch, drains, alone,
                   roundStart, roundN, roundDeq, recent, sentMidRound, waitDeq,
                   closedWith, drainPending, ringIter>>

\* mod.rs:124-138: one iteration of the block loop, or its end
BlockLayer ==
    /\ pc = "fill"
    /\ fill.pc = "block"
    /\ fill' =
          IF fill.y >= fill.shape.height
          THEN [fill EXCEPT !.pc = "done"]
          ELSE IF get_mut_is_some(fill.dimension, block_cell(fill.y, fill.sections_min_y)[1])
          THEN [fill EXCEPT !.y = @ + 1,
                            !.block_states = @ \cup {block_cell(fill.y, fill.sections_min_y)}]
          ELSE [fill EXCEPT !.y = @ + 1, !.skipped = @ \cup {fill.y}]
    /\ UNCHANGED <<overflow_checks, chan, chanOpen, sent, queue, poll_countdown, pc,
                   executed, deqCount, dropped, admitted, batch, drains, alone,
                   roundStart, roundN, roundDeq, recent, sentMidRound, waitDeq,
                   closedWith, drainPending, ringIter>>

FillNext == BiomeLayer \/ BlockLayer

FillSpec == FillInit /\ [][FillNext]_vars

\* the scheduler runs on a thread of its own: a step it can take is eventually taken
FairSpec == Spec /\ WF_vars(Scheduler)

(***************************************************************************)
(* Properties                                                              *)
(***************************************************************************)

Min(a, b) == IF a < b THEN a ELSE b
SentIds == 1..Len(sent)
\* the number of work units the iterator of request id is built to return
Units(id) == RepeatCount(sent[id])

\* the pops of the current round: the first roundN pops after poll_countdown was set
RoundPops == SubSeq(roundDeq, 1, Min(Len(roundDeq), roundN))

\* C1: a round is the N pops that follow the admission setting poll_countdown = N =
\* queue.len(). While a round lasts poll_countdown is N minus the pops made, every
\* pop takes a task that was queued at the round's start, no task is popped twice,
\* and when poll_countdown is back at zero each of those tasks was popped exactly
\* once, whatever the tasks have left and whatever was sent meanwhile.
C1_RoundFairness ==
    /\ roundN > 0 => /\ poll_countdown = roundN - Len(roundDeq)
                     /\ poll_countdown >= 0
    /\ \A k \in 1..Len(RoundPops) : RoundPops[k] \in roundStart
    /\ \A j, k \in 1..Len(RoundPops) : j # k => RoundPops[j] # RoundPops[k]
    /\ Len(roundDeq) >= roundN =>
          {RoundPops[k] : k \in 1..Len(RoundPops)} = roundStart

\* a round of two tasks has ended; one of them was found exhausted and dropped in
\* it, and a request was sent during it
C1_Witness ==
    /\ roundN = 2
    /\ Len(roundDeq) = 2
    /\ poll_countdown = 0
    /\ \E id \in roundStart : id \in dropped /\ deqCount[id] > 1
    /\ chan # <<>>

\* C2: a request iterated to its end has returned exactly radius + 1 work units
C2_RadiusPlusOneUnits ==
    \A id \in dropped : Len(executed[id]) = sent[id].radius + 1

\* C3: the j-th work unit executed for a request (j from 0) is the one whose
\* Terrain cursor has radius j, under any interleaving of the requests
C3_RingOrder ==
    \A id \in Ids : \A j \in 1..Len(executed[id]) :
        executed[id][j].ring.radius = j - 1

\* two requests were in the queue together and each has had three units executed
C3_Witness ==
    /\ roundN = 2
    /\ \A id \in roundStart : Len(executed[id]) = 3

\* every work unit of request id has been executed
Completed(id) == id \in SentIds /\ Len(executed[id]) = Units(id)

\* C4: once a request is in the ready queue, then, as long as the channel stays
\* open and the scheduler keeps running, all its work units are eventually executed
C4_EventualCompletion ==
    \A id \in Ids : (admitted[id] # "no") ~> (~chanOpen \/ Completed(id))

\* C5: a request sent while poll_countdown is not zero stays out of the ready queue
\* until poll_countdown has been zero, and a request waiting in the channel sees at
\* most one round length of pops before it is admitted
C5_AdmittedAtRoundEnd ==
    /\ \A id \in sentMidRound : admitted[id] = "no"
    /\ \A id \in ChanIds : waitDeq[id] <= roundN

\* the windows of recent: s is a window's first pop, recent[s].n its length
WindowStarts == {s \in 1..Len(recent) : s + recent[s].n - 1 <= Len(recent)}
Window(s) == s..(s + recent[s].n - 1)
\* at the first pop every queued task had at least N units left, and nothing was
\* admitted up to the last pop
WindowApplies(s) ==
    /\ recent[s].enough
    /\ recent[s + recent[s].n - 1].adm = recent[s].adm

\* C6: with N tasks queued, each with at least N units left, and no admission, any
\* N consecutive pops, wherever in a round they start, serve each task exactly once
C6_SlidingWindow ==
    \A s \in WindowStarts : WindowApplies(s) =>
        /\ \A k \in Window(s) : recent[k].served
        /\ {recent[k].id : k \in Window(s)} = recent[s].qids
        /\ \A j, k \in Window(s) : j # k => recent[j].id # recent[k].id

\* a window of two pops over two tasks that starts in the middle of a round
C6_Witness ==
    \E s \in WindowStarts :
        /\ WindowApplies(s)
        /\ recent[s].n = 2
        /\ recent[s].cd = 1

ExecutedLast(id) == Len(executed[id]) >= 1 /\ Len(executed[id]) = Units(id)

\* C8: of two requests of radius 1 admitted by the same drain, neither executes its
\* last work unit before the other has executed its first
C8_Interleaved ==
    \A a, b \in SentIds :
        (/\ a # b
         /\ sent[a].radius = 1 /\ sent[b].radius = 1
         /\ admitted[a] = "try_recv" /\ admitted[b] = "try_recv"
         /\ batch[a] = batch[b])
        => (ExecutedLast(a) => Len(executed[b]) >= 1)

\* the radii of a work unit's five cursors, Terrain first
UnitRadii(u) ==
    <<u.ring.radius, u.light_radius.radius, u.carver_radius.radius,
      u.biome_radius.radius, u.structure_starts_radius.radius>>
UnitPositions(u) ==
    {u.ring.position, u.light_radius.position, u.carver_radius.position,
     u.biome_radius.position, u.structure_starts_radius.position}

\* C9: the work unit a request returns for ring distance i has five cursors at the
\* request's origin with radii i, i+1, i+2, i+3 and i+10
C9_StageRadii ==
    \A id \in SentIds : \A j \in 1..Len(executed[id]) :
        LET u == executed[id][j]
        IN /\ UnitRadii(u) = <<u.i, u.i + 1, u.i + 2, u.i + 3, u.i + 10>>
           /\ UnitPositions(u) = {sent[id].origin}

\* a request away from 0 has returned the units of ring distances 1 and 2, with the
\* radii {1,2,3,4,11} and {2,3,4,5,12}
C9_Witness ==
    \E id \in SentIds :
        /\ sent[id].origin < 0
        /\ Len(executed[id]) >= 3
        /\ UnitRadii(executed[id][2]) = <<1, 2, 3, 4, 11>>
        /\ UnitRadii(executed[id][3]) = <<2, 3, 4, 5, 12>>

\* C10: in every work unit Terrain <= Light < Carver < Biome < StructureStarts
C10_PaddingOrder ==
    \A id \in SentIds : \A j \in 1..Len(executed[id]) :
        LET r == UnitRadii(executed[id][j])
        IN r[1] <= r[2] /\ r[2] < r[3] /\ r[3] < r[4] /\ r[4] < r[5]

\* a request of the largest radius has been iterated to its end
C10_Witness ==
    \E id \in dropped : sent[id].radius = MaxRadius /\ Len(executed[id]) = MaxRadius

\* C11: once the channel is closed (finitely many requests were sent) the scheduler
\* does not panic and reaches its terminal state: until it has returned it can
\* still take a step, and every run of the scheduler is finite here
C11_GracefulShutdown ==
    ~chanOpen => /\ pc # "panicked"
                 /\ (pc = "done" \/ ENABLED Scheduler)

\* C12 as stated: when the channel is closed while tasks with unexecuted work units
\* are in the ready queue, the scheduler reaches its terminal state with those
\* tasks abandoned, their remaining units not executed
C12_AbandonsPending ==
    pc = "done" => \A id \in closedWith : ~Completed(id)

\* C12, amended: the scheduler returns only with the ready queue and the channel
\* empty, after every request sent, those pending at the close included, has had
\* all its work units executed
C12_ReturnsWithQueueEmpty ==
    pc = "done" => /\ queue = <<>>
                   /\ chan = <<>>
                   /\ \A id \in SentIds : Completed(id) /\ id \in dropped

C12_Witness ==
    /\ pc = "done"
    /\ \E id \in closedWith : Units(id) >= 2 /\ Completed(id)

\* the requests the most recent non-blocking drain moved into the queue
LastDrainAdmitted == {id \in SentIds : admitted[id] = "try_recv" /\ batch[id] = drains}

\* C13: whenever the scheduler is suspended in the blocking receive the ready queue
\* is empty and the preceding non-blocking drain found no pending request
C13_BlocksOnlyWhenIdle ==
    pc = "blocked" => /\ queue = <<>>
                      /\ LastDrainAdmitted = {}

C13_Witness ==
    /\ pc = "blocked"
    /\ chan = <<>>
    /\ \E id \in dropped : Units(id) >= 1 /\ admitted[id] = "try_recv"

\* the number of columns Ring Traversal at distance r is to yield
RingSize(r) == IF r = 0 THEN 1 ELSE 8 * r

\* C14: draining a ring cursor of distance r (next() until it returns None) does
\* not fail and yields exactly 8r distinct columns, one column for r = 0, and
\* nothing after them
C14_RingTraversal ==
    /\ ringIter.pc # "panicked"
    /\ ringIter.pc = "drained" =>
          /\ Len(ringIter.columns) = RingSize(ringIter.cursor.radius)
          /\ \A j, k \in 1..Len(ringIter.columns) :
                j # k => ringIter.columns[j] # ringIter.columns[k]

\* the request the blocking receive returned is in the queue and not yet popped
JustWoken(id) == admitted[id] = "recv" /\ id \in QueueIds(queue) /\ deqCount[id] = 0

\* C15: a request that arrives while the scheduler is blocked starts a new round:
\* the scheduler goes on to a dequeue step, and at the first dequeue step after the
\* wake-up the countdown is the number of tasks in the queue (at least 1) and no
\* request that was waiting in the channel at the wake-up is still there
C15_WakeUpStartsRound ==
    \A id \in SentIds :
        JustWoken(id) =>
            /\ pc # "panicked"
            /\ pc = "pop" => /\ poll_countdown = Len(queue)
                             /\ poll_countdown >= 1
                             /\ ChanIds \subseteq sentMidRound

\* C16: the step that ends a drain (the countdown was zero at the head of the loop)
\* leaves every request that was pending when the drain began in the ready queue
\* and none of them in the channel, the later submission nearer the front, and
\* leaves the countdown equal to the length of the ready queue
C16_AdmissionStep ==
    [][(pc = "drain" /\ pc' = "pop") =>
          /\ poll_countdown = 0
          /\ drainPending \subseteq QueueIds(queue')
          /\ drainPending \cap {chan'[k].id : k \in 1..Len(chan')} = {}
          /\ \A j, k \in 1..Len(queue') :
                (j < k /\ queue'[j].id \in drainPending /\ queue'[k].id \in drainPending)
                    => queue'[j].id > queue'[k].id
          /\ poll_countdown' = Len(queue')]_vars

C16_Witness ==
    /\ pc = "pop"
    /\ roundDeq = <<>>
    /\ drains >= 2
    /\ poll_countdown = Len(queue)
    /\ Cardinality(LastDrainAdmitted) >= 2
    /\ Len(queue) > Cardinality(LastDrainAdmitted)

\* the work units the task of request id has left, if it is in the ready queue
Remaining(id) == {queue[k].it.n : k \in {j \in 1..Len(queue) : queue[j].id = id}}

BlockLayersDone ==
    IF fill.pc = "block" THEN 0..(fill.y - 1)
    ELSE IF fill.pc = "done" THEN 0..(fill.shape.height - 1)
    ELSE {}

\* C18: whatever the shape's min_y, the block fill writes layer y to section
\* y div S, row y mod S, as the biome fill does at its granularity: no layer gone
\* through is skipped, none is written elsewhere, and once the loop is done every
\* section has all its S rows written
C18_BlockFillLayout ==
    /\ fill.pc \in {"block", "done"} =>
          /\ fill.skipped = {}
          /\ fill.block_states =
                {<<y \div BlockPalette_SIZE, y % BlockPalette_SIZE>> : y \in BlockLayersDone}
          /\ fill.biomes =
                {<<y \div BiomePalette_SIZE, y % BiomePalette_SIZE>> :
                    y \in 0..(from_block(fill.shape.height) - 1)}
    /\ fill.pc = "done" =>
          fill.block_states =
             (0..(sub_chunks(fill.dimension) - 1)) \X (0..(BlockPalette_SIZE - 1))

\* C19: the countdown never underflows: the decrement never runs at zero (no panic
\* with overflow checks, no wrapped value without them), and at the head of the
\* loop and at the pop 0 <= countdown <= length of the ready queue
C19_NoUnderflow ==
    /\ pc # "panicked"
    /\ poll_countdown >= 0
    /\ pc \in {"drain", "pop"} => poll_countdown <= Len(queue)

\* the places request id is in: the channel, the ready queue, finished and dropped
Places(id) ==
    (IF id \in ChanIds THEN {"channel"} ELSE {})
        \cup (IF id \in QueueIds(queue) THEN {"queue"} ELSE {})
        \cup (IF id \in dropped THEN {"dropped"} ELSE {})

====
